---- MODULE Spec2Model ----
(***************************************************************************)
(* Model of the zrmash on-disk resolution step (zrmash_io_prepare) and of  *)
(* the epoch store that the node configures through DefaultConfig and      *)
(* CreateConsensusEngine.                                                  *)
(***************************************************************************)
EXTENDS Integers, Sequences, FiniteSets, TLC

(***************************************************************************)
(* Bounds of the model.                                                    *)
(***************************************************************************)
\* Width in bits of the unsigned words (uint64_t / size_t) of the model. The
\* build has 64-bit words; the model keeps the wrap-around of the same
\* expressions at a width that TLC's integers can hold.
WordBits == 12
\* Largest payload size (bytes) a caller asks for, besides the sizes near
\* the top of the word range that make the size arithmetic wrap.
MaxPayload == 1

Word == 2 ^ WordBits

(***************************************************************************)
(* Constants of the program.                                               *)
(***************************************************************************)
ZRMASH_DAG_MAGIC_NUM_SIZE == 8
\* The magic number as it lies in the file (host byte order).
ZRMASH_DAG_MAGIC_NUM == <<254, 202, 221, 186, 173, 222, 225, 254>>
ZRMASH_REVISION == "R"

\* enum zrmash_io_rc, the values the function names
ZRMASH_IO_FAIL == "ZRMASH_IO_FAIL"
ZRMASH_IO_MEMO_SIZE_MISMATCH == "ZRMASH_IO_MEMO_SIZE_MISMATCH"
ZRMASH_IO_MEMO_MISMATCH == "ZRMASH_IO_MEMO_MISMATCH"
ZRMASH_IO_MEMO_MATCH == "ZRMASH_IO_MEMO_MATCH"

\* no file of that name (no sequence of bytes)
NoFile == <<-1>>
\* the null FILE*
NULL == [name |-> <<"", 0>>, pos |-> 0]
Newline == 10

(***************************************************************************)
(* Unsigned and signed word arithmetic.                                    *)
(***************************************************************************)
AddW(a, b) == (a + b) % Word
SubW(a, b) == (a - b + Word) % Word
\* (long int) x for an unsigned word x
AsLong(x) == IF x >= Word \div 2 THEN x - Word ELSE x

(***************************************************************************)
(* Inputs.                                                                 *)
(***************************************************************************)
\* A seed hash is a pair of words; the file name digests it.
SeedHashes == {<<0, 1>>, <<1, 0>>}
\* Requested payload sizes: the small ones, and two at the top of the word
\* range, where found_size - MAGIC_NUM_SIZE and file_size + MAGIC_NUM_SIZE - 1
\* wrap around (seek offsets -1 and 0).
SmallSizes == 0 .. MaxPayload
TopSizes == {Word - ZRMASH_DAG_MAGIC_NUM_SIZE, Word - ZRMASH_DAG_MAGIC_NUM_SIZE + 1}
FileSizes == SmallSizes \cup TopSizes
\* The I/O call of a run that fails, if any. Two outcomes of a failed flush:
\* the buffered byte reached the disk before the error, or it did not.
Faults == {"none", "mkdir", "create_filename", "file_size", "fread",
           "fopen_wb", "fseek", "fputc", "fflush", "fflush_partial"}

\* zrmash_io_mutable_name: the name is a digest of the seed hash under the
\* revision, not the whole hash.
zrmash_io_mutable_name(revision, seedhash) == <<revision, seedhash[1]>>
FileNames == {zrmash_io_mutable_name(ZRMASH_REVISION, s) : s \in SeedHashes}

(***************************************************************************)
(* Files: a file is the sequence of its bytes.                             *)
(***************************************************************************)
Zeros(n) == [i \in 1 .. n |-> 0]
\* bytes written at offset pos of content c (a hole reads as zeros)
WriteAt(c, pos, bytes) ==
    LET end == pos + Len(bytes)
        n == IF Len(c) > end THEN Len(c) ELSE end
    IN [i \in 1 .. n |->
          IF i > pos /\ i <= end THEN bytes[i - pos]
          ELSE IF i <= Len(c) THEN c[i] ELSE 0]

\* zrmash_file_size: the size of the open file
zrmash_file_size(c) == Len(c) % Word
\* fread(&magic_num, ZRMASH_DAG_MAGIC_NUM_SIZE, 1, f): the number of whole
\* items read, and the item
fread_count(c) == IF Len(c) >= ZRMASH_DAG_MAGIC_NUM_SIZE THEN 1 ELSE 0
fread_item(c) == SubSeq(c, 1, ZRMASH_DAG_MAGIC_NUM_SIZE)

(***************************************************************************)
(* zrmash_io_prepare.  A run is described by the record st:                *)
(*   dir   whether the directory exists                                    *)
(*   file  the bytes of the file tmpfile names, or NoFile                  *)
(*   out   the caller's *output_file                                       *)
(*   ops   the I/O and memory calls made so far, each with its success     *)
(*   ret   the variable ret, returned at the end                           *)
(* io says which calls of the run fail: io.openFails, the fopen "rb+" of   *)
(* an existing file; io.fault, one of the other calls.                     *)
(***************************************************************************)
Op(name, ok) == <<name, ok>>
Did(st, name, ok) == [st EXCEPT !.ops = Append(@, Op(name, ok))]

\* an open FILE*: the file it is open on and its position
Handle(name, pos) == [name |-> name, pos |-> pos]
EOF == -1

\* the bug of declaring ret without a value
InitialRet_Unset == "indeterminate"
\* enum zrmash_io_rc ret = ZRMASH_IO_FAIL;
InitialRet == ZRMASH_IO_FAIL

\* The tests the function makes on what the I/O calls return.
\* if (!zrmash_mkdir(dirname))
MkdirFailed(ok) == ~ok
\* if (!tmpfile)
NoFilename(ok) == ~ok
\* the bug of looking at the existing file whatever the flag says
TryExisting_Always(force_create) == TRUE
\* if (!force_create)
TryExisting(force_create) == ~force_create
\* if (f), after fopen(tmpfile, "rb+")
Opened(ok) == ok
\* if (!zrmash_file_size(f, &found_size))
SizeQueryFailed(ok) == ~ok
\* the bug of accepting any file that is long enough
SizeDiffers_OnlyShorter(file_size, found_size) ==
    file_size > SubW(found_size, ZRMASH_DAG_MAGIC_NUM_SIZE)
\* if (file_size != found_size - ZRMASH_DAG_MAGIC_NUM_SIZE)
SizeDiffers(file_size, found_size) ==
    file_size # SubW(found_size, ZRMASH_DAG_MAGIC_NUM_SIZE)
\* the bug of taking fread's result for a number of bytes
FreadFailed_Bytes(count) == count # ZRMASH_DAG_MAGIC_NUM_SIZE
\* if (fread(&magic_num, ZRMASH_DAG_MAGIC_NUM_SIZE, 1, f) != 1)
FreadFailed(count) == count # 1
\* the bug of not comparing the magic number
MagicDiffers_Never(magic_num) == FALSE
\* the bug of testing the magic number for equality instead of inequality
MagicDiffers_Inverted(magic_num) == magic_num = ZRMASH_DAG_MAGIC_NUM
\* if (magic_num != ZRMASH_DAG_MAGIC_NUM)
MagicDiffers(magic_num) == magic_num # ZRMASH_DAG_MAGIC_NUM
\* if (!f), after fopen(tmpfile, "wb+")
NotCreated(ok) == ~ok
\* if (fseek(f, ...) != 0)
SeekFailed(rc) == rc # 0
\* if (fputc('\n', f) == EOF)
PutFailed(c) == c = EOF
\* the bug of ignoring what fflush returns
FlushFailed_Ignored(rc) == FALSE
\* if (fflush(f) != 0)
FlushFailed(rc) == rc # 0

\* end: return ret;
L_end(st) == st
\* free_memo: free(tmpfile);
L_free_memo(st) == L_end(Did(st, "free", TRUE))
\* the bug of set_file returning at once, without falling through to
\* free_memo
L_set_file_NoFree(f, st) == L_end([Did(st, "assign", TRUE) EXCEPT !.out = f])
\* set_file: *output_file = f;
L_set_file(f, st) == L_free_memo([Did(st, "assign", TRUE) EXCEPT !.out = f])

\* the bug of seeking one byte too far
SeekOffset_PastEnd(file_size) ==
    AsLong(AddW(file_size, ZRMASH_DAG_MAGIC_NUM_SIZE))
\* the offset of the last byte of the file to create, as fseek receives it:
\* (long int)(file_size + ZRMASH_DAG_MAGIC_NUM_SIZE - 1)
SeekOffset(file_size) ==
    AsLong(SubW(AddW(file_size, ZRMASH_DAG_MAGIC_NUM_SIZE), 1))

\* "file does not exist, will need to be created"
CreatePath(st, name, file_size, io) ==
    LET f == io.fault # "fopen_wb"
        s1 == Did(st, "fopen_wb", f)
    IN IF NotCreated(f)
       THEN L_free_memo(s1)
       ELSE
         LET \* fopen(tmpfile, "wb+") truncates the file or creates it empty
             s2 == [s1 EXCEPT !.file = <<>>]
             off == SeekOffset(file_size)
             \* fseek refuses a negative offset
             seek_rc == IF io.fault = "fseek" \/ off < 0 THEN -1 ELSE 0
             pos == IF seek_rc = 0 THEN off ELSE 0
             s3 == Did(s2, "fseek", seek_rc = 0)
         IN IF SeekFailed(seek_rc)
            THEN L_free_memo(Did(s3, "fclose", TRUE))
            ELSE
              LET c == IF io.fault = "fputc" THEN EOF ELSE Newline
                  pos2 == IF c = EOF THEN pos ELSE pos + 1
                  s4 == Did(s3, "fputc", c # EOF)
              IN IF PutFailed(c)
                 THEN L_free_memo(Did(s4, "fclose", TRUE))
                 ELSE
                   LET flush_rc == IF io.fault \in {"fflush", "fflush_partial"}
                                   THEN EOF ELSE 0
                       onDisk == IF c # EOF /\ (flush_rc = 0 \/ io.fault = "fflush_partial")
                                 THEN WriteAt(<<>>, pos, <<Newline>>)
                                 ELSE <<>>
                       s5 == [Did(s4, "fflush", flush_rc = 0)
                              EXCEPT !.file = onDisk]
                   IN IF FlushFailed(flush_rc)
                      THEN L_free_memo(Did(s5, "fclose", TRUE))
                      ELSE L_set_file(Handle(name, pos2),
                              [s5 EXCEPT !.ret = ZRMASH_IO_MEMO_MISMATCH])

\* "try to open the file": the branch taken when fopen(tmpfile, "rb+")
\* returned a file
InspectPath(st, name, file_size, io) ==
    LET sized == io.fault # "file_size"
        found_size == zrmash_file_size(st.file)
        s1 == Did(st, "file_size", sized)
    IN IF SizeQueryFailed(sized)
       THEN L_free_memo(Did(s1, "fclose", TRUE))
       ELSE IF SizeDiffers(file_size, found_size)
       THEN L_free_memo([Did(s1, "fclose", TRUE)
                         EXCEPT !.ret = ZRMASH_IO_MEMO_SIZE_MISMATCH])
       ELSE
         LET count == IF io.fault = "fread" THEN 0 ELSE fread_count(st.file)
             magic_num == IF count = 1 THEN fread_item(st.file) ELSE <<>>
             pos == IF count = 1 THEN ZRMASH_DAG_MAGIC_NUM_SIZE ELSE 0
             s2 == Did(s1, "fread", count = 1)
         IN IF FreadFailed(count)
            THEN L_free_memo([Did(s2, "fclose", TRUE)
                              EXCEPT !.ret = ZRMASH_IO_MEMO_SIZE_MISMATCH])
            ELSE IF MagicDiffers(magic_num)
            THEN L_free_memo([Did(s2, "fclose", TRUE)
                              EXCEPT !.ret = ZRMASH_IO_MEMO_SIZE_MISMATCH])
            ELSE L_set_file(Handle(name, pos),
                            [s2 EXCEPT !.ret = ZRMASH_IO_MEMO_MATCH])

zrmash_io_prepare(dir, files, out, seedhash, file_size, force_create, io) ==
    LET mutable_name == zrmash_io_mutable_name(ZRMASH_REVISION, seedhash)
        st0 == [dir |-> dir, file |-> files[mutable_name], out |-> out,
                ops |-> <<>>, ret |-> InitialRet]
        made == io.fault # "mkdir"
        s1 == [Did(st0, "mkdir", made) EXCEPT !.dir = st0.dir \/ made]
    IN IF MkdirFailed(made)
       THEN L_end(s1)
       ELSE
         LET tmpfile == io.fault # "create_filename"
             s2 == Did(s1, "create_filename", tmpfile)
         IN IF NoFilename(tmpfile)
            THEN L_end(s2)
            ELSE IF TryExisting(force_create)
            THEN LET f == s2.file # NoFile /\ ~io.openFails
                     s3 == Did(s2, "fopen_rb", f)
                 IN IF Opened(f)
                    THEN InspectPath(s3, mutable_name, file_size, io)
                    ELSE CreatePath(s3, mutable_name, file_size, io)
            ELSE CreatePath(s2, mutable_name, file_size, io)

(***************************************************************************)
(* State.                                                                  *)
(***************************************************************************)
VARIABLES
    dirExists,    \* the directory dirname exists
    files,        \* file name -> bytes of the file, or NoFile
    output_file,  \* the caller's FILE* that prepare receives the address of
    written,      \* file name -> what the caller wrote there after a
                  \* creation, while the file is as the caller left it
    call,         \* the call of zrmash_io_prepare that has just returned:
                  \* arguments, result, the calls it made, the file before
    crashed       \* file name -> the creation that the process stopped in,
                  \* while the file is as the stop left it

ioVars == <<dirExists, files, output_file, written, call, crashed>>

(***************************************************************************)
(* The epoch store: the generations resident in memory.                    *)
(***************************************************************************)
\* Bounds of the store's model.
\* the callers that resolve epochs concurrently
NumCallers == 2
\* the Generation Records made in a run
MaxGens == 3

\* DefaultConfig
EthashCachesInMem == 2
EthashCachesOnDisk == 3
EthashDatasetsInMem == 1
EthashDatasetsOnDisk == 2
DefaultConfig ==
    [EthashCachesInMem |-> EthashCachesInMem,
     EthashCachesOnDisk |-> EthashCachesOnDisk,
     EthashDatasetsInMem |-> EthashDatasetsInMem,
     EthashDatasetsOnDisk |-> EthashDatasetsOnDisk]

\* the bug of handing the arguments of zrmash.New over in the wrong order
CreateConsensusEngine_Swapped(config) ==
    [cachesinmem |-> config.EthashCachesOnDisk,
     cachesondisk |-> config.EthashCachesInMem,
     dagsinmem |-> config.EthashDatasetsOnDisk,
     dagsondisk |-> config.EthashDatasetsInMem]
\* CreateConsensusEngine, default case: zrmash.New(cachedir,
\* config.EthashCachesInMem, config.EthashCachesOnDisk, dagdir,
\* config.EthashDatasetsInMem, config.EthashDatasetsOnDisk)
CreateConsensusEngine(config) ==
    [cachesinmem |-> config.EthashCachesInMem,
     cachesondisk |-> config.EthashCachesOnDisk,
     dagsinmem |-> config.EthashDatasetsInMem,
     dagsondisk |-> config.EthashDatasetsOnDisk]

Kinds == {"cache", "dataset"}
Callers == 1 .. NumCallers
GenIds == 1 .. MaxGens
\* the in-memory limit of each kind of generation
Limit(engine, kind) ==
    IF kind = "cache" THEN engine.cachesinmem ELSE engine.dagsinmem

VARIABLES
    engine,     \* the store's configuration, as zrmash.New received it
    table,      \* kind -> the resident Generation Records; a record holds
                \* its epoch, its identity, whether its build is published,
                \* and the rank of its last use among the resident ones
    nextId,     \* the identity of the next Generation Record
    pc,         \* caller -> "idle", "building", "publishing", "waiting",
                \* "holding"
    req,        \* caller -> the kind and epoch it resolves
    got,        \* caller -> the identity of the record it was handed, or 0
    builds,     \* record identity -> how many builds of it were executed
    issued,     \* record identity -> the kind and epoch it was made for
    evicted,    \* the identities of the records evicted so far
    recency,    \* kind -> the resident epochs, least recently resolved first
    evictedLru, \* every eviction so far removed the head of recency
    trace       \* the epochs of the first cache resolutions, in their order

storeVars == <<engine, table, nextId, pc, req, got, builds, issued, evicted,
               recency, evictedLru, trace>>
vars == <<ioVars, storeVars>>

NoReq == [kind |-> "", epoch |-> 0]

NotWritten == [content |-> NoFile, seedhash |-> <<0, 0>>]
NoCrash == [seedhash |-> <<0, 0>>, file_size |-> -1]
NoCall == [called |-> FALSE, seedhash |-> <<0, 0>>, name |-> <<"", 0>>,
           file_size |-> 0, force_create |-> FALSE, ret |-> "",
           ops |-> <<>>, before |-> NoFile, outBefore |-> NULL,
           roundtrip |-> NotWritten, crash |-> NoCrash]

IoInit ==
    /\ dirExists = FALSE
    /\ files = [n \in FileNames |-> NoFile]
    /\ output_file = NULL
    /\ written = [n \in FileNames |-> NotWritten]
    /\ call = NoCall
    /\ crashed = [n \in FileNames |-> NoCrash]

IoOutcomes == [openFails : BOOLEAN, fault : Faults]

\* A call of zrmash_io_prepare(dirname, seedhash, &output_file, file_size,
\* force_create) under the I/O outcome io.
Prepare(seedhash, file_size, force_create, io) ==
    LET name == zrmash_io_mutable_name(ZRMASH_REVISION, seedhash)
        r == zrmash_io_prepare(dirExists, files, output_file, seedhash,
                               file_size, force_create, io)
    IN /\ ~call.called
       /\ dirExists' = r.dir
       /\ files' = [files EXCEPT ![name] = r.file]
       /\ output_file' = r.out
       /\ written' = [written EXCEPT ![name] =
                         IF r.file = files[name] THEN @ ELSE NotWritten]
       /\ call' = [called |-> TRUE, seedhash |-> seedhash, name |-> name,
                   file_size |-> file_size, force_create |-> force_create,
                   ret |-> r.ret, ops |-> r.ops, before |-> files[name],
                   outBefore |-> output_file,
                   roundtrip |-> written[name], crash |-> crashed[name]]
       /\ crashed' = [crashed EXCEPT ![name] =
                         IF r.file = files[name] THEN @ ELSE NoCrash]
       /\ UNCHANGED storeVars

\* the byte values of the payloads of the model
PayloadBytes == {1, 2}
Payloads(n) == [1 .. n -> PayloadBytes]
\* The caller fills the file that prepare has just created for it: from
\* offset 0, the magic number in the first bytes, then the payload.
CallerWrite(payload) ==
    /\ call.called
    /\ call.ret = ZRMASH_IO_MEMO_MISMATCH
    /\ call.file_size = Len(payload)
    /\ LET c == WriteAt(files[output_file.name], 0,
                        ZRMASH_DAG_MAGIC_NUM \o payload)
       IN /\ files' = [files EXCEPT ![output_file.name] = c]
          /\ written' = [written EXCEPT ![output_file.name] =
                            [content |-> c, seedhash |-> call.seedhash]]
    /\ output_file' = [output_file EXCEPT
                          !.pos = ZRMASH_DAG_MAGIC_NUM_SIZE + Len(payload)]
    /\ crashed' = [crashed EXCEPT ![output_file.name] = NoCrash]
    /\ call' = NoCall
    /\ UNCHANGED <<dirExists, storeVars>>

\* Something else than this program puts a file under one of the names,
\* replaces it or removes it: a file with a damaged magic number and a length
\* the program asks for, a file with the magic number that is too long, a
\* file cut inside the magic number.
Damaged == [ZRMASH_DAG_MAGIC_NUM EXCEPT ![ZRMASH_DAG_MAGIC_NUM_SIZE] = 0]
ForeignFiles ==
    {Damaged \o Zeros(n) : n \in SmallSizes}
    \cup {ZRMASH_DAG_MAGIC_NUM \o Zeros(MaxPayload + 1),
          SubSeq(ZRMASH_DAG_MAGIC_NUM, 1, ZRMASH_DAG_MAGIC_NUM_SIZE - 1),
          NoFile}
ForeignWrite(name, content) ==
    /\ ~call.called
    /\ dirExists
    /\ files[name] # content
    /\ files' = [files EXCEPT ![name] = content]
    /\ written' = [written EXCEPT ![name] = NotWritten]
    /\ crashed' = [crashed EXCEPT ![name] = NoCrash]
    /\ UNCHANGED <<dirExists, output_file, call, storeVars>>

\* The caller takes the result of the call and goes on.
Return ==
    /\ call.called
    /\ call' = NoCall
    /\ UNCHANGED <<dirExists, files, output_file, written, crashed, storeVars>>

\* The process stops inside the creation path of a call of
\* zrmash_io_prepare(dirname, seedhash, &output_file, file_size,
\* force_create), or after the call and before the caller has written the
\* magic number, and is started again.  On the disk the file is then as
\* fopen(tmpfile, "wb+") truncated it, or extended by a part of what fflush
\* carries out, or as long as the creation path makes it with nothing but
\* the sentinel in it; what the process held in memory is gone.
Crash(seedhash, file_size, force_create, openFails, len) ==
    LET name == zrmash_io_mutable_name(ZRMASH_REVISION, seedhash)
        r == zrmash_io_prepare(dirExists, files, output_file, seedhash,
                               file_size, force_create,
                               [openFails |-> openFails, fault |-> "none"])
        created == \E i \in 1 .. Len(r.ops) : r.ops[i] = Op("fopen_wb", TRUE)
    IN /\ ~call.called
       /\ created
       /\ len <= Len(r.file)
       /\ dirExists' = r.dir
       /\ files' = [files EXCEPT ![name] = SubSeq(r.file, 1, len)]
       /\ output_file' = NULL
       /\ written' = [written EXCEPT ![name] = NotWritten]
       /\ crashed' = [crashed EXCEPT ![name] =
                         [seedhash |-> seedhash, file_size |-> file_size]]
       /\ call' = NoCall
       /\ UNCHANGED storeVars

(***************************************************************************)
(* The epoch store's operations.                                           *)
(***************************************************************************)
StoreInit ==
    /\ engine = CreateConsensusEngine(DefaultConfig)
    /\ table = [k \in Kinds |-> {}]
    /\ nextId = 1
    /\ pc = [t \in Callers |-> "idle"]
    /\ req = [t \in Callers |-> NoReq]
    /\ got = [t \in Callers |-> 0]
    /\ builds = [i \in GenIds |-> 0]
    /\ issued = [i \in GenIds |-> NoReq]
    /\ evicted = {}
    /\ recency = [k \in Kinds |-> <<>>]
    /\ evictedLru = TRUE
    /\ trace = <<>>

Init == IoInit /\ StoreInit

\* the bug of never finding a generation in the table
Resident_Never(T, e) == FALSE
\* a generation of epoch e is resident in the table T
Resident(T, e) == \E r \in T : r.epoch = e
RecordOf(T, e) == CHOOSE r \in T : r.epoch = e
\* some caller holds a reference to the record
Referenced(id) == \E t \in Callers : got[t] = id
\* the least recently used record of the table
Oldest(T) == CHOOSE r \in T : \A q \in T : r.used <= q.used
\* the ranks of last use, renumbered from 1
Normalise(T) ==
    {[r EXCEPT !.used = Cardinality({q \in T : q.used <= r.used})] : r \in T}
\* the record of epoch e becomes the most recently used
Touch(T, e) ==
    Normalise({IF r.epoch = e THEN [r EXCEPT !.used = Cardinality(T) + 1]
               ELSE r : r \in T})
\* a new record, the most recently used
Insert(T, e, id) ==
    Normalise(T) \cup {[epoch |-> e, id |-> id, built |-> FALSE,
                        used |-> Cardinality(T) + 1]}
Without(seq, e) == SelectSeq(seq, LAMBDA x : x # e)

\* the order of the first cache resolutions, up to the length of the
\* scenario resolve 0, 1, 2
Scenario == <<0, 1, 2>>
\* the epochs of the model are those of the scenario
Epochs == {Scenario[i] : i \in DOMAIN Scenario}
Longer == <<-1>>
Traced(tr, kind, e) ==
    IF kind # "cache" THEN tr
    ELSE IF tr = Longer \/ Len(tr) >= Len(Scenario) THEN Longer
    ELSE Append(tr, e)

\* Caller t asks the store for the generation of an epoch: one critical
\* section that finds the resident record or decides to build, evicting the
\* least recently used record when the table is full.
Resolve(t, kind, e) ==
    /\ pc[t] = "idle"
    /\ req' = [req EXCEPT ![t] = [kind |-> kind, epoch |-> e]]
    /\ trace' = Traced(trace, kind, e)
    /\ IF Resident(table[kind], e)
       THEN LET r == RecordOf(table[kind], e)
            IN /\ table' = [table EXCEPT ![kind] = Touch(@, e)]
               /\ got' = [got EXCEPT ![t] = r.id]
               /\ pc' = [pc EXCEPT ![t] = IF r.built THEN "holding" ELSE "waiting"]
               /\ recency' = [recency EXCEPT ![kind] = Append(Without(@, e), e)]
               /\ UNCHANGED <<nextId, issued, evicted, evictedLru>>
       ELSE LET T == table[kind]
                full == Cardinality(T) >= Limit(engine, kind)
                victim == Oldest(T)
                kept == IF full THEN T \ {victim} ELSE T
            IN /\ nextId <= MaxGens
               /\ full => ~Referenced(victim.id)
               /\ table' = [table EXCEPT ![kind] = Insert(kept, e, nextId)]
               /\ got' = [got EXCEPT ![t] = nextId]
               /\ pc' = [pc EXCEPT ![t] = "building"]
               /\ issued' = [issued EXCEPT ![nextId] = [kind |-> kind, epoch |-> e]]
               /\ nextId' = nextId + 1
               /\ evicted' = IF full THEN evicted \cup {victim.id} ELSE evicted
               /\ evictedLru' = (evictedLru /\
                                 (full => victim.epoch = Head(recency[kind])))
               /\ recency' = [recency EXCEPT ![kind] =
                     Append(IF full THEN Without(@, victim.epoch) ELSE @, e)]
    /\ UNCHANGED <<engine, builds, ioVars>>

\* The caller that decided to build runs the build, outside the critical
\* section.
Build(t) ==
    /\ pc[t] = "building"
    /\ builds' = [builds EXCEPT ![got[t]] = @ + 1]
    /\ pc' = [pc EXCEPT ![t] = "publishing"]
    /\ UNCHANGED <<engine, table, nextId, req, got, issued, evicted, recency,
                   evictedLru, trace, ioVars>>

\* The builder publishes the completed Generation Record.
Publish(t) ==
    /\ pc[t] = "publishing"
    /\ table' = [table EXCEPT ![req[t].kind] =
                    {IF r.id = got[t] THEN [r EXCEPT !.built = TRUE] ELSE r :
                       r \in @}]
    /\ pc' = [pc EXCEPT ![t] = "holding"]
    /\ UNCHANGED <<engine, nextId, req, got, builds, issued, evicted, recency,
                   evictedLru, trace, ioVars>>

\* A caller that found a build in progress is handed the record once it is
\* published.
Receive(t) ==
    /\ pc[t] = "waiting"
    /\ \E r \in table[req[t].kind] : r.id = got[t] /\ r.built
    /\ pc' = [pc EXCEPT ![t] = "holding"]
    /\ UNCHANGED <<engine, table, nextId, req, got, builds, issued, evicted,
                   recency, evictedLru, trace, ioVars>>

\* The caller releases its reference.
Release(t) ==
    /\ pc[t] = "holding"
    /\ pc' = [pc EXCEPT ![t] = "idle"]
    /\ got' = [got EXCEPT ![t] = 0]
    /\ req' = [req EXCEPT ![t] = NoReq]
    /\ UNCHANGED <<engine, table, nextId, builds, issued, evicted, recency,
                   evictedLru, trace, ioVars>>

NextStore ==
    \/ \E t \in Callers, k \in Kinds, e \in Epochs : Resolve(t, k, e)
    \/ \E t \in Callers : Build(t)
    \/ \E t \in Callers : Publish(t)
    \/ \E t \in Callers : Receive(t)
    \/ \E t \in Callers : Release(t)

SpecStore == Init /\ [][NextStore]_vars

Next ==
    \/ \E s \in SeedHashes, n \in FileSizes, fc \in BOOLEAN, io \in IoOutcomes :
          Prepare(s, n, fc, io)
    \/ \E n \in SmallSizes : \E p \in Payloads(n) : CallerWrite(p)
    \/ \E name \in FileNames, c \in ForeignFiles : ForeignWrite(name, c)
    \/ Return

Spec == Init /\ [][Next]_vars

\* The program with the stops of the process, on the file of one seed hash:
\* calls of zrmash_io_prepare, the caller's writes, foreign writes, and stops
\* inside a creation or before the caller's write.
CrashSeedHashes == {<<0, 1>>}
NextCrash ==
    \/ \E s \in CrashSeedHashes, n \in FileSizes, fc \in BOOLEAN,
          io \in IoOutcomes : Prepare(s, n, fc, io)
    \/ \E n \in SmallSizes : \E p \in Payloads(n) : CallerWrite(p)
    \/ \E s \in CrashSeedHashes, c \in ForeignFiles :
          ForeignWrite(zrmash_io_mutable_name(ZRMASH_REVISION, s), c)
    \/ Return
    \/ \E s \in CrashSeedHashes, n \in FileSizes, fc \in BOOLEAN, o \in BOOLEAN,
          len \in 0 .. MaxPayload + ZRMASH_DAG_MAGIC_NUM_SIZE :
          Crash(s, n, fc, o, len)

SpecCrash == Init /\ [][NextCrash]_vars

(***************************************************************************)
(* Properties of zrmash_io_prepare, stated of the call that has just       *)
(* returned.                                                               *)
(***************************************************************************)
Has(name, ok) == \E i \in 1 .. Len(call.ops) : call.ops[i] = Op(name, ok)
Made(name) == Has(name, TRUE) \/ Has(name, FALSE)
AllOk == \A i \in 1 .. Len(call.ops) : call.ops[i][2]
HasMagic(c) ==
    /\ c # NoFile
    /\ Len(c) >= ZRMASH_DAG_MAGIC_NUM_SIZE
    /\ SubSeq(c, 1, ZRMASH_DAG_MAGIC_NUM_SIZE) = ZRMASH_DAG_MAGIC_NUM
\* the file is exactly n + magic number size bytes long (no wrap-around)
RightSize(c, n) == c # NoFile /\ Len(c) = n + ZRMASH_DAG_MAGIC_NUM_SIZE
NonForced == call.called /\ ~call.force_create
Forced == call.called /\ call.force_create
\* the file as the creation path leaves it: zeros up to the sentinel
Preallocated(n) == WriteAt(<<>>, n - 1, <<Newline>>)

\* C1: a non-forced call returns match only if the file it found is exactly
\* file_size + magic number size bytes long and starts with the magic
\* number; a file with the magic number and another length, once its size
\* has been read, is reported as a size mismatch.
C1_NoFalseMatch ==
    NonForced =>
      /\ call.ret = ZRMASH_IO_MEMO_MATCH =>
            RightSize(call.before, call.file_size) /\ HasMagic(call.before)
      /\ (Has("file_size", TRUE) /\ HasMagic(call.before)
             /\ ~RightSize(call.before, call.file_size)) =>
            call.ret = ZRMASH_IO_MEMO_SIZE_MISMATCH
C1_Witness ==
    /\ NonForced
    /\ HasMagic(call.before)
    /\ ~RightSize(call.before, call.file_size)
    /\ call.ret = ZRMASH_IO_MEMO_SIZE_MISMATCH
\* the wrapped case of C1: a file shorter than the magic number passes the
\* size test and is still no match
C1_WrapReached ==
    /\ NonForced
    /\ call.before # NoFile
    /\ Len(call.before) < ZRMASH_DAG_MAGIC_NUM_SIZE
    /\ Has("fread", FALSE)
    /\ call.ret # ZRMASH_IO_MEMO_MATCH

\* C2 (as stated): every call returns match, mismatch-created or fail.
C2_ThreeResults ==
    call.called =>
      call.ret \in {ZRMASH_IO_MEMO_MATCH, ZRMASH_IO_MEMO_MISMATCH,
                    ZRMASH_IO_FAIL}
\* C2 (amended): every call returns exactly one of the four values match,
\* mismatch-created, size-mismatch or fail.
C2_FourResults ==
    call.called =>
      call.ret \in {ZRMASH_IO_MEMO_MATCH, ZRMASH_IO_MEMO_MISMATCH,
                    ZRMASH_IO_MEMO_SIZE_MISMATCH, ZRMASH_IO_FAIL}
C2_Witness ==
    /\ call.called
    /\ call.ret = ZRMASH_IO_MEMO_SIZE_MISMATCH
    /\ RightSize(call.before, call.file_size)

\* the case of C3: a non-forced call opened an existing file, read its size,
\* and the size is wrong or the leading bytes are not the magic number
FormatMismatch ==
    /\ NonForced
    /\ Has("fopen_rb", TRUE)
    /\ Has("file_size", TRUE)
    /\ ~RightSize(call.before, call.file_size) \/ ~HasMagic(call.before)
\* C3 (as stated): a format mismatch ends in the creation path, with a
\* freshly preallocated file handed over and the result mismatch-created.
C3_FallsBackToCreation ==
    FormatMismatch =>
      /\ call.ret = ZRMASH_IO_MEMO_MISMATCH
      /\ files[call.name] = Preallocated(AddW(call.file_size, ZRMASH_DAG_MAGIC_NUM_SIZE))
\* C3 (amended): a format mismatch makes the call return size-mismatch: the
\* file is closed and left as it was, nothing is created and output_file is
\* not assigned; only a call that is forced or could not open the file
\* takes the creation path.
C3_ReportsSizeMismatch ==
    /\ FormatMismatch =>
          /\ call.ret = ZRMASH_IO_MEMO_SIZE_MISMATCH
          /\ files[call.name] = call.before
          /\ output_file = call.outBefore
          /\ ~Made("fopen_wb")
          /\ Has("fclose", TRUE)
    /\ (call.called /\ Made("fopen_wb")) =>
          call.force_create \/ Has("fopen_rb", FALSE)
C3_Witness ==
    /\ FormatMismatch
    /\ RightSize(call.before, call.file_size)
    /\ Has("fread", TRUE)
    /\ call.ret = ZRMASH_IO_MEMO_SIZE_MISMATCH

\* an I/O call of the run failed: any failed call but the fopen "rb+" of a
\* file that may be absent and the read that ends early on a file shorter
\* than the magic number
IoFailure ==
    \E i \in 1 .. Len(call.ops) :
       /\ ~call.ops[i][2]
       /\ call.ops[i][1] # "fopen_rb"
       /\ call.ops[i][1] = "fread" =>
             Len(call.before) >= ZRMASH_DAG_MAGIC_NUM_SIZE
\* C4: every I/O failure inside the call makes it return fail; a failed read
\* of the magic number from a file of the right size is a fail, not a
\* format mismatch.
C4_IoFailureIsFail ==
    (call.called /\ IoFailure) => call.ret = ZRMASH_IO_FAIL

\* C5: a forced call goes straight to creation: the existing file is not
\* opened for inspection, its size and magic number are not read, and the
\* call returns mismatch-created unless it fails, never match.
C5_ForceSkipsToCreation ==
    Forced =>
      /\ ~Made("fopen_rb") /\ ~Made("file_size") /\ ~Made("fread")
      /\ call.ret # ZRMASH_IO_MEMO_MATCH
      /\ call.ret # ZRMASH_IO_FAIL => call.ret = ZRMASH_IO_MEMO_MISMATCH
C5_Witness ==
    /\ Forced
    /\ HasMagic(call.before) /\ RightSize(call.before, call.file_size)
    /\ call.ret = ZRMASH_IO_MEMO_MISMATCH

\* the case of C6: the file is as the caller wrote it after a creation, and
\* this non-forced call asks for the same seed hash and payload size
RoundTrip ==
    /\ NonForced
    /\ call.roundtrip.content # NoFile
    /\ call.roundtrip.seedhash = call.seedhash
    /\ RightSize(call.roundtrip.content, call.file_size)
CreationOps == <<Op("fopen_wb", TRUE), Op("fseek", TRUE), Op("fputc", TRUE),
                 Op("fflush", TRUE), Op("assign", TRUE), Op("free", TRUE)>>
C10_PositionedAtStart ==
    (call.called /\ call.ret = ZRMASH_IO_MEMO_MISMATCH) => output_file.pos = 0
\* C10 (amended): after a successful creation the returned file is
\* positioned at its end, just past the sentinel, at offset file_size +
\* magic number size.
C10_PositionedAtEnd ==
    (call.called /\ call.ret = ZRMASH_IO_MEMO_MISMATCH) =>
      /\ output_file.name = call.name
      /\ output_file.pos = Len(files[call.name])
      /\ output_file.pos = AddW(call.file_size, ZRMASH_DAG_MAGIC_NUM_SIZE)
C10_Witness ==
    /\ call.called
    /\ call.ret = ZRMASH_IO_MEMO_MISMATCH
    /\ call.file_size = MaxPayload
    /\ output_file.pos = MaxPayload + ZRMASH_DAG_MAGIC_NUM_SIZE

(***************************************************************************)
(* Properties of the epoch store.                                          *)
(***************************************************************************)
Issued == 1 .. (nextId - 1)
ResidentEpochs(kind) == {r.epoch : r \in table[kind]}

\* C7: at most one build per epoch at a time: no Generation Record is built
\* twice, a second record for a kind and epoch is only made after the first
\* was evicted, callers that resolve the same epoch are handed the same
\* record, a caller that holds a record holds a built one, and a caller
\* that arrived during the build waits on that resident record, which is
\* published or still in the hands of its one builder.
C7_OneBuildPerEpoch ==
    /\ \A i \in GenIds : builds[i] <= 1
    /\ \A i, j \in Issued :
          (i < j /\ issued[i] = issued[j]) => i \in evicted
    /\ \A t, u \in Callers :
          (got[t] # 0 /\ got[u] # 0 /\ req[t] = req[u]) => got[t] = got[u]
    /\ \A t \in Callers :
          pc[t] = "holding" =>
             /\ builds[got[t]] = 1
             /\ \E r \in table[req[t].kind] :
                   r.id = got[t] /\ r.epoch = req[t].epoch /\ r.built
    /\ \A t \in Callers :
          pc[t] = "waiting" =>
             \E r \in table[req[t].kind] :
                /\ r.id = got[t] /\ r.epoch = req[t].epoch
                /\ r.built \/ \E u \in Callers :
                                 /\ u # t /\ got[u] = got[t]
                                 /\ pc[u] \in {"building", "publishing"}
C7_Witness ==
    \E t, u \in Callers :
       /\ t # u
       /\ pc[t] = "waiting" /\ pc[u] = "publishing"
       /\ got[t] = got[u] /\ builds[got[u]] = 1

\* C8: the store holds at most CachesInMem cache generations and
\* DatasetsInMem dataset generations, every eviction removes the least
\* recently used generation, and after resolving the cache epochs 0, 1, 2 in
\* this order the epochs 1 and 2 are resident and epoch 0 is not.
C8_RetentionBound ==
    /\ Cardinality(table["cache"]) <= EthashCachesInMem
    /\ Cardinality(table["dataset"]) <= EthashDatasetsInMem
    /\ evictedLru
    /\ trace = Scenario => ResidentEpochs("cache") = {1, 2}
C8_Witness ==
    /\ trace = Scenario
    /\ evicted # {}
    /\ ResidentEpochs("cache") = {1, 2}

(***************************************************************************)
(* Properties of a call that finds the file of a creation the process      *)
(* stopped in.                                                             *)
(***************************************************************************)
\* the call found the file as a stop inside the creation for the same seed
\* hash and payload size, or after it and before the caller's write, left it
AfterCrash ==
    /\ call.called
    /\ call.crash # NoCrash
    /\ call.crash.seedhash = call.seedhash
    /\ call.crash.file_size = call.file_size

\* C11: when the process stopped during the creation path, or after it and
\* before the caller wrote the magic number (the file left empty, extended
\* in part, or of full length with only the sentinel in it), every later
\* non-forced call for the same seed hash and payload size that finds the
\* file as the stop left it returns a result other than match.
C11_CrashGuard ==
    (NonForced /\ AfterCrash) => call.ret # ZRMASH_IO_MEMO_MATCH

\* a non-forced call finds the file of full length with only the sentinel in
\* it, left by a stop in the creation for the same seed hash and size: the
\* size test passes, the magic number is read, and the result is not match
C11_Witness ==
    /\ NonForced /\ AfterCrash
    /\ call.before = Preallocated(call.file_size + ZRMASH_DAG_MAGIC_NUM_SIZE)
    /\ Has("fread", TRUE)
    /\ call.ret = ZRMASH_IO_MEMO_SIZE_MISMATCH

\* the other two states a stop leaves are met by a non-forced call as well:
\* the file truncated to empty, and the file extended in part
C11_EmptyReached ==
    NonForced /\ AfterCrash /\ call.before = <<>> /\ Has("fopen_rb", TRUE)
C11_PartialReached ==
    /\ NonForced /\ AfterCrash /\ Has("fopen_rb", TRUE)
    /\ call.before # NoFile
    /\ Len(call.before) > 0
    /\ Len(call.before) < call.file_size + ZRMASH_DAG_MAGIC_NUM_SIZE
\* and so is a second call after the first one that found the file
C11_LaterReached ==
    /\ NonForced /\ AfterCrash /\ Has("fopen_rb", TRUE)
    /\ output_file = NULL
    /\ call.ret = ZRMASH_IO_MEMO_SIZE_MISMATCH
    /\ dirExists

(***************************************************************************)
(* What the call that has just returned opened, closed, handed over and    *)
(* freed.                                                                  *)
(***************************************************************************)
\* how often the call made the call name with the outcome ok
Count(name, ok) ==
    Cardinality({i \in 1 .. Len(call.ops) : call.ops[i] = Op(name, ok)})
\* the handles the call opened, with rb+ or with wb+
Opens == Count("fopen_rb", TRUE) + Count("fopen_wb", TRUE)
Closes == Count("fclose", TRUE)
Assigns == Count("assign", TRUE)
Frees == Count("free", TRUE)
\* the position in the log of the one call name, 0 when it was not made
At(name) ==
    IF \E i \in 1 .. Len(call.ops) : call.ops[i][1] = name
    THEN CHOOSE i \in 1 .. Len(call.ops) : call.ops[i][1] = name
    ELSE 0
\* the handle the call opened, as it stands when the call returns: on the
\* file of the seed hash, after the magic number read with rb+, or after the
\* sentinel written with wb+
OpenedHandle ==
    IF Has("fopen_rb", TRUE)
    THEN Handle(call.name, ZRMASH_DAG_MAGIC_NUM_SIZE)
    ELSE Handle(call.name, Len(files[call.name]))

\* C12: the call assigns output_file exactly when it returns match or
\* mismatch-created, once, and then to the one handle it opened, which it
\* has not closed; with every other result output_file is as it was before
\* the call and every handle the call opened was closed once, after it was
\* opened; the path buffer is freed once when create_filename returned it,
\* as the last thing the call does, and not at all when it did not.
C12_HandleOwnership ==
    call.called =>
        /\ (Assigns = 1) <=> (call.ret \in {ZRMASH_IO_MEMO_MATCH,
                                            ZRMASH_IO_MEMO_MISMATCH})
        /\ Assigns <= 1
        /\ Opens <= 1
        /\ Assigns = 1 =>
               /\ Opens = 1
               /\ Closes = 0
               /\ output_file = OpenedHandle
        /\ Assigns = 0 =>
               /\ output_file = call.outBefore
               /\ Closes = Opens
               /\ Closes = 1 =>
                      /\ At("fclose") > At("fopen_rb")
                      /\ At("fclose") > At("fopen_wb")
        /\ Frees = (IF Has("create_filename", TRUE) THEN 1 ELSE 0)
        /\ Frees = 1 => call.ops[Len(call.ops)] = Op("free", TRUE)

\* a call that opened a handle and failed: the handle is closed, the path
\* buffer is freed, and the caller's output_file still is the handle of an
\* earlier call on another file
C12_Witness ==
    /\ call.called
    /\ call.ret \notin {ZRMASH_IO_MEMO_MATCH, ZRMASH_IO_MEMO_MISMATCH}
    /\ Opens = 1 /\ Closes = 1 /\ Frees = 1
    /\ call.outBefore # NULL
    /\ call.outBefore.name # call.name
    /\ output_file = call.outBefore

\* the other cases are met as well: a call that hands its handle over in
\* place of an earlier one, a call that allocated no path buffer, and a call
\* that opened no handle but freed the path buffer
C12_AssignReached ==
    /\ call.called /\ Assigns = 1 /\ Opens = 1 /\ Frees = 1
    /\ call.outBefore # NULL
    /\ output_file # call.outBefore
C12_NoBufferReached ==
    call.called /\ Has("create_filename", FALSE) /\ Frees = 0
C12_NoHandleReached ==
    call.called /\ Has("fopen_wb", FALSE) /\ Opens = 0 /\ Frees = 1

====
